---- MODULE Spec2Model ----
(***************************************************************************)
(* The ECC508 crypto-coprocessor driver (src/src/utility/ECC508.cpp) as a  *)
(* state machine.  The driver is single-threaded and synchronous: a call   *)
(* stack of frames, one frame per C++ function in progress, and one action *)
(* per function that advances the frame on top of the stack by one         *)
(* statement group (up to its next call or its return).  The two-wire bus  *)
(* and the device behind it are the environment: every bus write may fail  *)
(* and every bus read may come back short or with any frame.               *)
(***************************************************************************)
EXTENDS Integers, Sequences, FiniteSets, TLC

VARIABLES
  stack,   \* call stack: sequence of frames [fn, pc, arguments and locals]
  ret,     \* value returned by the call that returned last
  log,     \* bus transactions, delays and returns of the current public call
  device,  \* "Asleep" or "Awake": the power state the driver has put the device in
  call     \* the frame the current public call was entered with

vars == <<stack, ret, log, device, call>>

----------------------------------------------------------------------------
(* Bounds of the model.                                                    *)

\* key slots 0..MaxSlot are passed to the key and signing operations
MaxSlot == 1
\* the largest length random() is asked for
MaxRandomLen == 65
\* bytes of caller memory modelled behind the end of random()'s data buffer
Guard == 2

----------------------------------------------------------------------------
(* Bytes and buffers.                                                      *)

Fill(n, b) == [i \in 1..n |-> b]
Ramp(n, s) == [i \in 1..n |-> (s + i - 1) % 256]

\* memory the driver has not written: caller's buffers before a call
Untouched(n) == Fill(n, \HEE)

\* a copy that always lands at the start of dst
Memcpy_atStart(dst, off, src, n) ==
  [i \in 1..Len(dst) |-> IF i <= n THEN src[i] ELSE dst[i]]

\* memcpy(dst + off, src, n) on a buffer held as a sequence
Memcpy(dst, off, src, n) ==
  [i \in 1..Len(dst) |-> IF i > off /\ i <= off + n THEN src[i - off] ELSE dst[i]]

\* x | 0x80 on an int
Or0x80(x) == IF (x \div 128) % 2 = 1 THEN x ELSE x + 128

\* crc ^= 0x8005 on a uint16_t: bits 0, 2 and 15 are flipped
FlipBit(v, p) == IF (v \div p) % 2 = 1 THEN v - p ELSE v + p
Xor0x8005(crc) == FlipBit(FlipBit(FlipBit(crc, 1), 4), 32768)

----------------------------------------------------------------------------
(* crc16: the bit-serial checksum.                                         *)

\* an inner loop that takes the bits of the byte from the top down
RECURSIVE crc16Bits_msbFirst(_, _, _)
crc16Bits_msbFirst(crc, b, shift) ==
  IF shift = 0 THEN crc
  ELSE LET dataBit == (b \div (128 \div shift)) % 2
           crcBit == crc \div 32768
           shifted == (crc * 2) % 65536
           next == IF dataBit # crcBit THEN Xor0x8005(shifted) ELSE shifted
       IN IF next >= 0 THEN crc16Bits_msbFirst(next, b, (shift * 2) % 256) ELSE 0

\* the inner for loop: shift = 0x01, 0x02, .., 0x80, then 0 (uint8_t wraps)
RECURSIVE crc16Bits(_, _, _)
crc16Bits(crc, b, shift) ==
  IF shift = 0 THEN crc
  ELSE LET dataBit == (b \div shift) % 2
           crcBit == crc \div 32768
           shifted == (crc * 2) % 65536
           next == IF dataBit # crcBit THEN Xor0x8005(shifted) ELSE shifted
       IN IF next >= 0 THEN crc16Bits(next, b, (shift * 2) % 256) ELSE 0

\* the while loop over data[lo..hi], first byte first; the range is folded in
\* halves so that the evaluation depth stays logarithmic in the length
RECURSIVE crc16Bytes(_, _, _, _)
crc16Bytes(data, lo, hi, crc) ==
  IF lo > hi THEN crc
  ELSE IF lo = hi THEN crc16Bits(crc, data[lo], 1)
  ELSE LET mid == (lo + hi) \div 2
           left == crc16Bytes(data, lo, mid, crc)
       IN IF left >= 0 THEN crc16Bytes(data, mid + 1, hi, left) ELSE 0

\* the null pointer: no buffer, told from every sequence by its domain
NULL == [i \in {0} |-> 0]

crc16(data, length) ==
  IF DOMAIN data = DOMAIN NULL \/ length = 0 THEN 0
  ELSE crc16Bytes(data, 1, length, 0)

----------------------------------------------------------------------------
(* The device's side of the bus.                                           *)

\* a response frame as the device builds it: length byte, payload, checksum
\* least-significant byte first
ResponseFrame(lengthByte, payload) ==
  LET body == <<lengthByte>> \o payload
      crc == crc16(body, Len(body))
  IN body \o <<crc % 256, crc \div 256>>

\* the same frame with the checksum most-significant byte first
SwappedCrcFrame(lengthByte, payload) ==
  LET body == <<lengthByte>> \o payload
      crc == crc16(body, Len(body))
  IN body \o <<crc \div 256, crc % 256>>

\* a frame whose last checksum byte is off by one
BadCrcFrame(lengthByte, payload) ==
  LET f == ResponseFrame(lengthByte, payload)
  IN [f EXCEPT ![Len(f)] = (f[Len(f)] + 1) % 256]

\* payloads the device may answer with, per payload length
Payloads ==
  [n \in {1, 4, 32, 64} |->
     CASE n = 1 -> {<<\H11>>, <<\H00>>, <<\H01>>}
       [] n = 4 -> {<<\H00, \H00, \H50, \H00>>, <<\H01, \H23, \H00, \H00>>,
                    <<\H00, \H50, \H00, \HAB>>}
       [] OTHER -> {Ramp(n, 1), Fill(n, \HA5)}]

\* what a bus read of n + 3 bytes may leave in the response buffer: a good
\* frame, a frame with a wrong length byte (and a checksum that fits it), a
\* frame with a corrupted or byte-swapped checksum, or an idle bus (0xFF)
DeviceFrames ==
  [n \in {1, 4, 32, 64} |->
     LET p == CHOOSE q \in Payloads[n] : TRUE
     IN {ResponseFrame(n + 3, q) : q \in Payloads[n]}
        \cup {ResponseFrame(n + 2, p), BadCrcFrame(n + 3, p),
              SwappedCrcFrame(n + 3, p), Fill(n + 3, \HFF)}]

----------------------------------------------------------------------------
(* Call stack.                                                             *)

NoRet == [fn |-> "none", val |-> 0, out |-> <<>>]
R(f, v, o) == [fn |-> f, val |-> v, out |-> o]

Running(f) == Len(stack) > 0 /\ stack[Len(stack)].fn = f
top == stack[Len(stack)]
Below == SubSeq(stack, 1, Len(stack) - 1)

Delay(ms) == [k |-> "delay", t |-> ms]

\* the caller `frame` calls `callee`, after `events`
Call(frame, callee, events) ==
  /\ stack' = Below \o <<frame, callee>>
  /\ log' = log \o events \o <<[k |-> "call", fn |-> callee.fn]>>
  /\ ret' = NoRet

\* the function on top moves on without a call
Goto(frame) ==
  /\ stack' = Below \o <<frame>>
  /\ UNCHANGED <<log, ret>>

\* the function on top returns v
Return(v) ==
  /\ stack' = Below
  /\ log' = Append(log, [k |-> "ret", fn |-> v.fn, v |-> v.val, out |-> v.out])
  /\ ret' = v

At(p) == [top EXCEPT !.pc = p]

----------------------------------------------------------------------------
(* Frame transport: sendCommand, receiveResponse, wakeup, idle, sleep.     *)

F_sendCommand(opcode, param1, param2, data, dataLength) ==
  [fn |-> "sendCommand", pc |-> "start", opcode |-> opcode % 256,
   param1 |-> param1 % 256, param2 |-> param2 % 65536,
   data |-> data, dataLength |-> dataLength]

\* a retry counter that starts one too high
F_receiveResponse_oneMore(length) ==
  [fn |-> "receiveResponse", pc |-> "poll", length |-> length,
   retries |-> 21, responseSize |-> length + 3, got |-> -1, reads |-> 0]

F_receiveResponse(length) ==
  [fn |-> "receiveResponse", pc |-> "poll", length |-> length,
   retries |-> 20, responseSize |-> length + 3, got |-> -1, reads |-> 0]

F_wakeup == [fn |-> "wakeup", pc |-> "start"]
F_idle == [fn |-> "idle", pc |-> "start"]
F_sleep == [fn |-> "sleep", pc |-> "start"]

\* a frame whose checksum takes in the type byte
CommandFrame_crcFromType(opcode, param1, param2, data, dataLength) ==
  LET head == <<\H03, (8 + dataLength - 1) % 256, opcode, param1,
                param2 % 256, param2 \div 256>>
             \o SubSeq(data, 1, dataLength)
      crc == crc16(head, 8 - 3 + dataLength)
  IN head \o <<crc % 256, crc \div 256>>

\* the command frame sendCommand assembles
CommandFrame(opcode, param1, param2, data, dataLength) ==
  LET head == <<\H03, (8 + dataLength - 1) % 256, opcode, param1,
                param2 % 256, param2 \div 256>>
             \o SubSeq(data, 1, dataLength)
      crc == crc16(SubSeq(head, 2, Len(head)), 8 - 3 + dataLength)
  IN head \o <<crc % 256, crc \div 256>>

\* sendTo's status: 0 when the write was acknowledged, else an error code
sendCommand ==
  /\ Running("sendCommand")
  /\ UNCHANGED <<device, call>>
  /\ \E status \in {0, 2} :
       LET command == CommandFrame(top.opcode, top.param1, top.param2,
                                   top.data, top.dataLength)
       IN /\ stack' = Below
          /\ log' = log \o <<[k |-> "cmd", frame |-> command, ok |-> status = 0],
                             [k |-> "ret", fn |-> "sendCommand",
                              v |-> IF status # 0 THEN 0 ELSE 1, out |-> <<>>]>>
          /\ ret' = R("sendCommand", IF status # 0 THEN 0 ELSE 1, <<>>)

\* a verdict that looks at the checksum only
ResponseOk_noLength(responseBuffer, length) ==
  LET responseSize == length + 3
      responseCrc == responseBuffer[length + 2] + responseBuffer[length + 3] * 256
  IN responseCrc = crc16(responseBuffer, responseSize - 2)

\* the verdict on the response buffer: length byte, then checksum
ResponseOk(responseBuffer, length) ==
  LET responseSize == length + 3
      responseCrc == responseBuffer[length + 2] + responseBuffer[length + 3] * 256
  IN /\ responseBuffer[1] = responseSize
     /\ responseCrc = crc16(responseBuffer, responseSize - 2)

\* ResponseOk on every frame the bus can deliver, worked out once
Accepted == [n \in DOMAIN DeviceFrames |->
               {f \in DeviceFrames[n] : ResponseOk(f, n)}]

\* The loop `while (requestFrom(..) != responseSize && retries--);` one
\* requestFrom per step, then the checks and the copy.  responseBuffer is an
\* uninitialised array and a short read need not fill it, so after the loop
\* it holds whatever the bus delivered or the stack held: some frame of
\* DeviceFrames, settled when the checks look at it.
receiveResponse ==
  /\ Running("receiveResponse")
  /\ UNCHANGED <<device, call>>
  /\ CASE top.pc = "poll" ->
            /\ \E n \in {0, top.responseSize} :
                 stack' = Below \o
                   <<[top EXCEPT
                        !.pc = IF n # top.responseSize /\ top.retries # 0
                               THEN "poll" ELSE "check",
                        !.retries = IF n # top.responseSize
                                    THEN top.retries - 1 ELSE top.retries,
                        !.got = n,
                        !.reads = top.reads + 1]>>
            /\ log' = IF top.reads = 0
                      THEN Append(log, [k |-> "read", n |-> top.responseSize])
                      ELSE log
            /\ ret' = ret
       [] top.pc = "check" ->
            \E responseBuffer \in DeviceFrames[top.length] :
              LET ok == responseBuffer \in Accepted[top.length]
                  v == [fn |-> "receiveResponse",
                        val |-> IF ok THEN 1 ELSE 0,
                        out |-> IF ok THEN SubSeq(responseBuffer, 2, top.length + 1)
                                ELSE <<>>,
                        length |-> top.length,
                        responseBuffer |-> responseBuffer,
                        got |-> top.got]
              IN Return(v)

wakeup ==
  /\ Running("wakeup")
  /\ UNCHANGED call
  /\ CASE top.pc = "start" ->
            /\ Call(At("received"), F_receiveResponse(1),
                    <<[k |-> "wake"], [k |-> "delayMicroseconds", t |-> 800]>>)
            /\ UNCHANGED device
       [] top.pc = "received" ->
            IF ret.val = 0 \/ ret.out[1] # \H11
            THEN Return(R("wakeup", 0, <<>>)) /\ UNCHANGED device
            ELSE Return(R("wakeup", 1, <<>>)) /\ device' = "Awake"

\* device follows the driver's convention: a wakeup that succeeded makes it
\* Awake, an idle() or sleep() that was issued makes it Asleep
idle ==
  /\ Running("idle")
  /\ UNCHANGED call
  /\ \E status \in {0, 2} :
       /\ stack' = Below
       /\ log' = Append(log, [k |-> "idle"])
       /\ ret' = R("idle", IF status # 0 THEN 0 ELSE 1, <<>>)
       /\ device' = "Asleep"

sleep ==
  /\ Running("sleep")
  /\ UNCHANGED call
  /\ \E status \in {0, 2} :
       /\ stack' = Below
       /\ log' = Append(log, [k |-> "sleep"])
       /\ ret' = R("sleep", IF status # 0 THEN 0 ELSE 1, <<>>)
       /\ device' = "Asleep"

----------------------------------------------------------------------------
(* Command executor: read.                                                 *)

F_read(zone, address, buffer, length) ==
  [fn |-> "read", pc |-> "start", zone |-> zone, address |-> address,
   buffer |-> buffer, length |-> length]

\* a read that returns as soon as it has the payload
read_noIdle ==
  /\ Running("read")
  /\ UNCHANGED <<device, call>>
  /\ CASE top.pc = "start" -> Call(At("woke"), F_wakeup, <<>>)
       [] top.pc = "woke" ->
            IF ret.val = 0 THEN Return(R("read", 0, top.buffer))
            ELSE IF top.length # 4 /\ top.length # 32
                 THEN Return(R("read", 0, top.buffer))
            ELSE LET zone == IF top.length = 32 THEN Or0x80(top.zone) ELSE top.zone
                 IN Call(At("sent"),
                         F_sendCommand(\H02, zone, top.address, <<>>, 0), <<>>)
       [] top.pc = "sent" ->
            IF ret.val = 0 THEN Return(R("read", 0, top.buffer))
            ELSE Call(At("received"), F_receiveResponse(top.length), <<Delay(1)>>)
       [] top.pc = "received" ->
            IF ret.val = 0 THEN Return(R("read", 0, top.buffer))
            ELSE Return(R("read", top.length,
                          Memcpy(top.buffer, 0, ret.out, top.length)))

read ==
  /\ Running("read")
  /\ UNCHANGED <<device, call>>
  /\ CASE top.pc = "start" -> Call(At("woke"), F_wakeup, <<>>)
       [] top.pc = "woke" ->
            IF ret.val = 0 THEN Return(R("read", 0, top.buffer))
            ELSE IF top.length # 4 /\ top.length # 32
                 THEN Return(R("read", 0, top.buffer))
            ELSE LET zone == IF top.length = 32 THEN Or0x80(top.zone) ELSE top.zone
                 IN Call(At("sent"),
                         F_sendCommand(\H02, zone, top.address, <<>>, 0), <<>>)
       [] top.pc = "sent" ->
            IF ret.val = 0 THEN Return(R("read", 0, top.buffer))
            ELSE Call(At("received"), F_receiveResponse(top.length), <<Delay(1)>>)
       [] top.pc = "received" ->
            IF ret.val = 0 THEN Return(R("read", 0, top.buffer))
            ELSE Call([top EXCEPT !.pc = "idled",
                                  !.buffer = Memcpy(top.buffer, 0, ret.out, top.length)],
                      F_idle, <<Delay(1)>>)
       [] top.pc = "idled" -> Return(R("read", top.length, top.buffer))

----------------------------------------------------------------------------
(* Command executor: write, lock(zone), version, challenge, verify, sign,  *)
(* generatePrivateKey, generatePublicKey, random.                          *)

\* a status that is never looked at
StatusFailed_never(status) == FALSE

\* `if (status != 0) return 0;` of write, lock(zone), challenge and verify
StatusFailed(status) == status # 0

F_write(zone, address, buffer, length) ==
  [fn |-> "write", pc |-> "start", zone |-> zone, address |-> address,
   buffer |-> buffer, length |-> length, status |-> -1]

\* a write that returns on a nonzero status before it idles
write_statusBeforeIdle ==
  /\ Running("write")
  /\ UNCHANGED <<device, call>>
  /\ CASE top.pc = "start" -> Call(At("woke"), F_wakeup, <<>>)
       [] top.pc = "woke" ->
            IF ret.val = 0 THEN Return(R("write", 0, <<>>))
            ELSE IF top.length # 4 /\ top.length # 32
                 THEN Return(R("write", 0, <<>>))
            ELSE LET zone == IF top.length = 32 THEN Or0x80(top.zone) ELSE top.zone
                 IN Call(At("sent"),
                         F_sendCommand(\H12, zone, top.address, top.buffer, top.length),
                         <<>>)
       [] top.pc = "sent" ->
            IF ret.val = 0 THEN Return(R("write", 0, <<>>))
            ELSE Call(At("received"), F_receiveResponse(1), <<Delay(26)>>)
       [] top.pc = "received" ->
            IF ret.val = 0 THEN Return(R("write", 0, <<>>))
            ELSE IF StatusFailed(ret.out[1]) THEN Return(R("write", 0, <<>>))
            ELSE Call([top EXCEPT !.pc = "idled", !.status = ret.out[1]],
                      F_idle, <<Delay(1)>>)
       [] top.pc = "idled" -> Return(R("write", 1, <<>>))

write ==
  /\ Running("write")
  /\ UNCHANGED <<device, call>>
  /\ CASE top.pc = "start" -> Call(At("woke"), F_wakeup, <<>>)
       [] top.pc = "woke" ->
            IF ret.val = 0 THEN Return(R("write", 0, <<>>))
            ELSE IF top.length # 4 /\ top.length # 32
                 THEN Return(R("write", 0, <<>>))
            ELSE LET zone == IF top.length = 32 THEN Or0x80(top.zone) ELSE top.zone
                 IN Call(At("sent"),
                         F_sendCommand(\H12, zone, top.address, top.buffer, top.length),
                         <<>>)
       [] top.pc = "sent" ->
            IF ret.val = 0 THEN Return(R("write", 0, <<>>))
            ELSE Call(At("received"), F_receiveResponse(1), <<Delay(26)>>)
       [] top.pc = "received" ->
            IF ret.val = 0 THEN Return(R("write", 0, <<>>))
            ELSE Call([top EXCEPT !.pc = "idled", !.status = ret.out[1]],
                      F_idle, <<Delay(1)>>)
       [] top.pc = "idled" ->
            IF StatusFailed(top.status) THEN Return(R("write", 0, <<>>))
            ELSE Return(R("write", 1, <<>>))

F_lockZone(zone) == [fn |-> "lock(int)", pc |-> "start", zone |-> zone, status |-> -1]

\* a lock(zone) that waits as long as a write
lockZone_writeDelay ==
  /\ Running("lock(int)")
  /\ UNCHANGED <<device, call>>
  /\ CASE top.pc = "start" -> Call(At("woke"), F_wakeup, <<>>)
       [] top.pc = "woke" ->
            IF ret.val = 0 THEN Return(R("lock(int)", 0, <<>>))
            ELSE Call(At("sent"),
                      F_sendCommand(\H17, Or0x80(top.zone), \H0000, <<>>, 0), <<>>)
       [] top.pc = "sent" ->
            IF ret.val = 0 THEN Return(R("lock(int)", 0, <<>>))
            ELSE Call(At("received"), F_receiveResponse(1), <<Delay(26)>>)
       [] top.pc = "received" ->
            IF ret.val = 0 THEN Return(R("lock(int)", 0, <<>>))
            ELSE Call([top EXCEPT !.pc = "idled", !.status = ret.out[1]],
                      F_idle, <<Delay(1)>>)
       [] top.pc = "idled" ->
            IF StatusFailed(top.status) THEN Return(R("lock(int)", 0, <<>>))
            ELSE Return(R("lock(int)", 1, <<>>))

\* lock(int zone)
lockZone ==
  /\ Running("lock(int)")
  /\ UNCHANGED <<device, call>>
  /\ CASE top.pc = "start" -> Call(At("woke"), F_wakeup, <<>>)
       [] top.pc = "woke" ->
            IF ret.val = 0 THEN Return(R("lock(int)", 0, <<>>))
            ELSE Call(At("sent"),
                      F_sendCommand(\H17, Or0x80(top.zone), \H0000, <<>>, 0), <<>>)
       [] top.pc = "sent" ->
            IF ret.val = 0 THEN Return(R("lock(int)", 0, <<>>))
            ELSE Call(At("received"), F_receiveResponse(1), <<Delay(32)>>)
       [] top.pc = "received" ->
            IF ret.val = 0 THEN Return(R("lock(int)", 0, <<>>))
            ELSE Call([top EXCEPT !.pc = "idled", !.status = ret.out[1]],
                      F_idle, <<Delay(1)>>)
       [] top.pc = "idled" ->
            IF StatusFailed(top.status) THEN Return(R("lock(int)", 0, <<>>))
            ELSE Return(R("lock(int)", 1, <<>>))

F_version == [fn |-> "version", pc |-> "start", version |-> 0]

\* the 4 bytes read most-significant byte first
Int32_bigEndian(b) ==
  LET top8 == IF b[1] >= 128 THEN b[1] - 256 ELSE b[1]
  IN b[4] + b[3] * 256 + b[2] * 65536 + top8 * 16777216

\* a uint32_t filled by memcpy from 4 bytes (little-endian), returned as a
\* 32-bit int: a top byte of 0x80 or more makes the int negative
Int32(b) ==
  LET top8 == IF b[4] >= 128 THEN b[4] - 256 ELSE b[4]
  IN b[1] + b[2] * 256 + b[3] * 65536 + top8 * 16777216

version ==
  /\ Running("version")
  /\ UNCHANGED <<device, call>>
  /\ CASE top.pc = "start" -> Call(At("woke"), F_wakeup, <<>>)
       [] top.pc = "woke" ->
            IF ret.val = 0 THEN Return(R("version", 0, <<>>))
            ELSE Call(At("sent"), F_sendCommand(\H30, \H00, \H0000, <<>>, 0), <<>>)
       [] top.pc = "sent" ->
            IF ret.val = 0 THEN Return(R("version", 0, <<>>))
            ELSE Call(At("received"), F_receiveResponse(4), <<Delay(1)>>)
       [] top.pc = "received" ->
            IF ret.val = 0 THEN Return(R("version", 0, <<>>))
            ELSE Call([top EXCEPT !.pc = "idled", !.version = Int32(ret.out)],
                      F_idle, <<Delay(1)>>)
       [] top.pc = "idled" -> Return(R("version", top.version, <<>>))

F_challenge(message) ==
  [fn |-> "challenge", pc |-> "start", message |-> message, status |-> -1]

challenge ==
  /\ Running("challenge")
  /\ UNCHANGED <<device, call>>
  /\ CASE top.pc = "start" -> Call(At("woke"), F_wakeup, <<>>)
       [] top.pc = "woke" ->
            IF ret.val = 0 THEN Return(R("challenge", 0, <<>>))
            ELSE Call(At("sent"),
                      F_sendCommand(\H16, \H03, \H0000, top.message, 32), <<>>)
       [] top.pc = "sent" ->
            IF ret.val = 0 THEN Return(R("challenge", 0, <<>>))
            ELSE Call(At("received"), F_receiveResponse(1), <<Delay(7)>>)
       [] top.pc = "received" ->
            IF ret.val = 0 THEN Return(R("challenge", 0, <<>>))
            ELSE Call([top EXCEPT !.pc = "idled", !.status = ret.out[1]],
                      F_idle, <<Delay(1)>>)
       [] top.pc = "idled" ->
            IF StatusFailed(top.status) THEN Return(R("challenge", 0, <<>>))
            ELSE Return(R("challenge", 1, <<>>))

F_verify(signature, pubkey) ==
  [fn |-> "verify", pc |-> "start", signature |-> signature, pubkey |-> pubkey,
   status |-> -1]

\* a verify that lays the public key before the signature
verify_keyFirst ==
  /\ Running("verify")
  /\ UNCHANGED <<device, call>>
  /\ CASE top.pc = "start" -> Call(At("woke"), F_wakeup, <<>>)
       [] top.pc = "woke" ->
            IF ret.val = 0 THEN Return(R("verify", 0, <<>>))
            ELSE LET data == Memcpy(Memcpy(Untouched(128), 0, top.pubkey, 64),
                                    64, top.signature, 64)
                 IN Call(At("sent"),
                         F_sendCommand(\H45, \H02, \H0004, data, 128), <<>>)
       [] top.pc = "sent" ->
            IF ret.val = 0 THEN Return(R("verify", 0, <<>>))
            ELSE Call(At("received"), F_receiveResponse(1), <<Delay(58)>>)
       [] top.pc = "received" ->
            IF ret.val = 0 THEN Return(R("verify", 0, <<>>))
            ELSE Call([top EXCEPT !.pc = "idled", !.status = ret.out[1]],
                      F_idle, <<Delay(1)>>)
       [] top.pc = "idled" ->
            IF StatusFailed(top.status) THEN Return(R("verify", 0, <<>>))
            ELSE Return(R("verify", 1, <<>>))

verify ==
  /\ Running("verify")
  /\ UNCHANGED <<device, call>>
  /\ CASE top.pc = "start" -> Call(At("woke"), F_wakeup, <<>>)
       [] top.pc = "woke" ->
            IF ret.val = 0 THEN Return(R("verify", 0, <<>>))
            ELSE LET data == Memcpy(Memcpy(Untouched(128), 0, top.signature, 64),
                                    64, top.pubkey, 64)
                 IN Call(At("sent"),
                         F_sendCommand(\H45, \H02, \H0004, data, 128), <<>>)
       [] top.pc = "sent" ->
            IF ret.val = 0 THEN Return(R("verify", 0, <<>>))
            ELSE Call(At("received"), F_receiveResponse(1), <<Delay(58)>>)
       [] top.pc = "received" ->
            IF ret.val = 0 THEN Return(R("verify", 0, <<>>))
            ELSE Call([top EXCEPT !.pc = "idled", !.status = ret.out[1]],
                      F_idle, <<Delay(1)>>)
       [] top.pc = "idled" ->
            IF StatusFailed(top.status) THEN Return(R("verify", 0, <<>>))
            ELSE Return(R("verify", 1, <<>>))

F_sign(slot, signature) ==
  [fn |-> "sign", pc |-> "start", slot |-> slot, signature |-> signature]

sign ==
  /\ Running("sign")
  /\ UNCHANGED <<device, call>>
  /\ CASE top.pc = "start" -> Call(At("woke"), F_wakeup, <<>>)
       [] top.pc = "woke" ->
            IF ret.val = 0 THEN Return(R("sign", 0, top.signature))
            ELSE Call(At("sent"), F_sendCommand(\H41, \H80, top.slot, <<>>, 0), <<>>)
       [] top.pc = "sent" ->
            IF ret.val = 0 THEN Return(R("sign", 0, top.signature))
            ELSE Call(At("received"), F_receiveResponse(64), <<Delay(50)>>)
       [] top.pc = "received" ->
            IF ret.val = 0 THEN Return(R("sign", 0, top.signature))
            ELSE Call([top EXCEPT !.pc = "idled",
                                  !.signature = Memcpy(top.signature, 0, ret.out, 64)],
                      F_idle, <<Delay(1)>>)
       [] top.pc = "idled" -> Return(R("sign", 1, top.signature))

F_generatePrivateKey(slot, publicKey) ==
  [fn |-> "generatePrivateKey", pc |-> "start", slot |-> slot,
   publicKey |-> publicKey]

generatePrivateKey ==
  /\ Running("generatePrivateKey")
  /\ UNCHANGED <<device, call>>
  /\ CASE top.pc = "start" -> Call(At("woke"), F_wakeup, <<>>)
       [] top.pc = "woke" ->
            IF ret.val = 0 THEN Return(R("generatePrivateKey", 0, top.publicKey))
            ELSE Call(At("sent"), F_sendCommand(\H40, \H04, top.slot, <<>>, 0), <<>>)
       [] top.pc = "sent" ->
            IF ret.val = 0 THEN Return(R("generatePrivateKey", 0, top.publicKey))
            ELSE Call(At("received"), F_receiveResponse(64), <<Delay(115)>>)
       [] top.pc = "received" ->
            IF ret.val = 0 THEN Return(R("generatePrivateKey", 0, top.publicKey))
            ELSE Call([top EXCEPT !.pc = "idled",
                                  !.publicKey = Memcpy(top.publicKey, 0, ret.out, 64)],
                      F_idle, <<Delay(1)>>)
       [] top.pc = "idled" -> Return(R("generatePrivateKey", 1, top.publicKey))

F_generatePublicKey(slot, publicKey) ==
  [fn |-> "generatePublicKey", pc |-> "start", slot |-> slot,
   publicKey |-> publicKey]

generatePublicKey ==
  /\ Running("generatePublicKey")
  /\ UNCHANGED <<device, call>>
  /\ CASE top.pc = "start" -> Call(At("woke"), F_wakeup, <<>>)
       [] top.pc = "woke" ->
            IF ret.val = 0 THEN Return(R("generatePublicKey", 0, top.publicKey))
            ELSE Call(At("sent"), F_sendCommand(\H40, \H00, top.slot, <<>>, 0), <<>>)
       [] top.pc = "sent" ->
            IF ret.val = 0 THEN Return(R("generatePublicKey", 0, top.publicKey))
            ELSE Call(At("received"), F_receiveResponse(64), <<Delay(115)>>)
       [] top.pc = "received" ->
            IF ret.val = 0 THEN Return(R("generatePublicKey", 0, top.publicKey))
            ELSE Call([top EXCEPT !.pc = "idled",
                                  !.publicKey = Memcpy(top.publicKey, 0, ret.out, 64)],
                      F_idle, <<Delay(1)>>)
       [] top.pc = "idled" -> Return(R("generatePublicKey", 1, top.publicKey))

\* data is the caller's memory from data[0] on; pos is how far the data
\* pointer has been advanced, length what is left to fill
F_random(data, length) ==
  [fn |-> "random", pc |-> "start", data |-> data, length |-> length, pos |-> 0]

\* a copy length that is always the whole response
Min_first(a, b) == a

Min(a, b) == IF a < b THEN a ELSE b

\* the head of `while (length)`: another command, or the delay and idle
randomLoop(frame) ==
  IF frame.length # 0
  THEN Call([frame EXCEPT !.pc = "sent"],
            F_sendCommand(\H1B, \H00, \H0000, <<>>, 0), <<>>)
  ELSE Call([frame EXCEPT !.pc = "idled"], F_idle, <<Delay(1)>>)

\* a random() that goes on whatever wakeup returned
random_noWakeCheck ==
  /\ Running("random")
  /\ UNCHANGED <<device, call>>
  /\ CASE top.pc = "start" -> Call(At("woke"), F_wakeup, <<>>)
       [] top.pc = "woke" -> randomLoop(top)
       [] top.pc = "sent" ->
            IF ret.val = 0 THEN Return(R("random", 0, top.data))
            ELSE Call(At("received"), F_receiveResponse(32), <<Delay(23)>>)
       [] top.pc = "received" ->
            IF ret.val = 0 THEN Return(R("random", 0, top.data))
            ELSE LET response == ret.out
                     copyLength == Min(32, top.length)
                 IN randomLoop([top EXCEPT
                                  !.data = Memcpy(top.data, top.pos, response, copyLength),
                                  !.length = top.length - copyLength,
                                  !.pos = top.pos + copyLength])
       [] top.pc = "idled" -> Return(R("random", 1, top.data))

random ==
  /\ Running("random")
  /\ UNCHANGED <<device, call>>
  /\ CASE top.pc = "start" -> Call(At("woke"), F_wakeup, <<>>)
       [] top.pc = "woke" ->
            IF ret.val = 0 THEN Return(R("random", 0, top.data))
            ELSE randomLoop(top)
       [] top.pc = "sent" ->
            IF ret.val = 0 THEN Return(R("random", 0, top.data))
            ELSE Call(At("received"), F_receiveResponse(32), <<Delay(23)>>)
       [] top.pc = "received" ->
            IF ret.val = 0 THEN Return(R("random", 0, top.data))
            ELSE LET response == ret.out
                     copyLength == Min(32, top.length)
                 IN randomLoop([top EXCEPT
                                  !.data = Memcpy(top.data, top.pos, response, copyLength),
                                  !.length = top.length - copyLength,
                                  !.pos = top.pos + copyLength])
       [] top.pc = "idled" -> Return(R("random", 1, top.data))

----------------------------------------------------------------------------
(* Cryptographic operation layer.                                          *)

F_begin == [fn |-> "begin", pc |-> "start"]

begin ==
  /\ Running("begin")
  /\ UNCHANGED <<device, call>>
  /\ CASE top.pc = "start" ->
            Call(At("versioned"), F_version,
                 <<[k |-> "busBegin"], [k |-> "setClock", hz |-> 100000]>>)
       [] top.pc = "versioned" ->
            IF ret.val # \H500000 THEN Return(R("begin", 0, <<>>))
            ELSE Return(R("begin", 1, <<>>))

F_end == [fn |-> "end", pc |-> "start"]

end ==
  /\ Running("end")
  /\ UNCHANGED <<device, call>>
  /\ stack' = Below
  /\ log' = log \o <<[k |-> "busEnd"],
                     [k |-> "ret", fn |-> "end", v |-> 0, out |-> <<>>]>>
  /\ ret' = R("end", 0, <<>>)

F_serialNumber == [fn |-> "serialNumber", pc |-> "start", sn |-> Untouched(12)]

HexDigits == <<"0", "1", "2", "3", "4", "5", "6", "7",
               "8", "9", "a", "b", "c", "d", "e", "f">>

\* String(b, HEX): no leading zero
StringHex(b) ==
  IF b < 16 THEN <<HexDigits[b + 1]>>
  ELSE <<HexDigits[(b \div 16) + 1], HexDigits[(b % 16) + 1]>>

\* a rendering without the zero padding
RECURSIVE serialNumberString_noPad(_, _)
serialNumberString_noPad(sn, i) ==
  IF i >= 8 THEN <<>>
  ELSE StringHex(sn[i + 1]) \o serialNumberString_noPad(sn, i + 1)

\* the for loop of serialNumber over sn[i], i = first..7
RECURSIVE serialNumberString(_, _)
serialNumberString(sn, i) ==
  IF i >= 8 THEN <<>>
  ELSE LET b == sn[i + 1]
       IN (IF b < 16 THEN <<"0">> ELSE <<>>) \o StringHex(b)
          \o serialNumberString(sn, i + 1)

\* the result is the null String, or the characters of the string
serialNumber ==
  /\ Running("serialNumber")
  /\ UNCHANGED <<device, call>>
  /\ CASE top.pc = "start" ->
            Call(At("read0"), F_read(0, 0, SubSeq(top.sn, 1, 4), 4), <<>>)
       [] top.pc = "read0" ->
            IF ret.val = 0 THEN Return(R("serialNumber", "NULL", <<>>))
            ELSE Call([top EXCEPT !.pc = "read2",
                                  !.sn = Memcpy(top.sn, 0, ret.out, 4)],
                      F_read(0, 2, SubSeq(top.sn, 5, 8), 4), <<>>)
       [] top.pc = "read2" ->
            IF ret.val = 0 THEN Return(R("serialNumber", "NULL", <<>>))
            ELSE Call([top EXCEPT !.pc = "read3",
                                  !.sn = Memcpy(top.sn, 4, ret.out, 4)],
                      F_read(0, 3, SubSeq(top.sn, 9, 12), 4), <<>>)
       [] top.pc = "read3" ->
            IF ret.val = 0 THEN Return(R("serialNumber", "NULL", <<>>))
            ELSE LET sn == Memcpy(top.sn, 8, ret.out, 4)
                 IN Return(R("serialNumber", serialNumberString(sn, 0), <<>>))

F_ecdsaVerify(message, signature, pubkey) ==
  [fn |-> "ecdsaVerify", pc |-> "start", message |-> message,
   signature |-> signature, pubkey |-> pubkey]

ecdsaVerify ==
  /\ Running("ecdsaVerify")
  /\ UNCHANGED <<device, call>>
  /\ CASE top.pc = "start" -> Call(At("challenged"), F_challenge(top.message), <<>>)
       [] top.pc = "challenged" ->
            IF ret.val = 0 THEN Return(R("ecdsaVerify", 0, <<>>))
            ELSE Call(At("verified"), F_verify(top.signature, top.pubkey), <<>>)
       [] top.pc = "verified" ->
            IF ret.val = 0 THEN Return(R("ecdsaVerify", 0, <<>>))
            ELSE Return(R("ecdsaVerify", 1, <<>>))

F_ecSign(slot, message, signature) ==
  [fn |-> "ecSign", pc |-> "start", slot |-> slot, message |-> message,
   signature |-> signature]

\* an ecSign that loads the message before it asks for the random bytes
ecSign_challengeFirst ==
  /\ Running("ecSign")
  /\ UNCHANGED <<device, call>>
  /\ CASE top.pc = "start" -> Call(At("randomed"), F_challenge(top.message), <<>>)
       [] top.pc = "randomed" ->
            IF ret.val = 0 THEN Return(R("ecSign", 0, top.signature))
            ELSE Call(At("challenged"), F_random(Untouched(32), 32), <<>>)
       [] top.pc = "challenged" ->
            IF ret.val = 0 THEN Return(R("ecSign", 0, top.signature))
            ELSE Call(At("signed"), F_sign(top.slot, top.signature), <<>>)
       [] top.pc = "signed" ->
            IF ret.val = 0 THEN Return(R("ecSign", 0, ret.out))
            ELSE Return(R("ecSign", 1, ret.out))

ecSign ==
  /\ Running("ecSign")
  /\ UNCHANGED <<device, call>>
  /\ CASE top.pc = "start" ->
            Call(At("randomed"), F_random(Untouched(32), 32), <<>>)
       [] top.pc = "randomed" ->
            IF ret.val = 0 THEN Return(R("ecSign", 0, top.signature))
            ELSE Call(At("challenged"), F_challenge(top.message), <<>>)
       [] top.pc = "challenged" ->
            IF ret.val = 0 THEN Return(R("ecSign", 0, top.signature))
            ELSE Call(At("signed"), F_sign(top.slot, top.signature), <<>>)
       [] top.pc = "signed" ->
            IF ret.val = 0 THEN Return(R("ecSign", 0, ret.out))
            ELSE Return(R("ecSign", 1, ret.out))

F_locked == [fn |-> "locked", pc |-> "start"]

\* a locked() that is content with one of the two bytes being zero
locked_eitherZero ==
  /\ Running("locked")
  /\ UNCHANGED <<device, call>>
  /\ CASE top.pc = "start" ->
            Call(At("read"), F_read(0, \H15, Untouched(4), 4), <<>>)
       [] top.pc = "read" ->
            IF ret.val = 0 THEN Return(R("locked", 0, <<>>))
            ELSE LET config == ret.out
                 IN IF config[3] = \H00 \/ config[4] = \H00
                    THEN Return(R("locked", 1, <<>>))
                    ELSE Return(R("locked", 0, <<>>))

locked ==
  /\ Running("locked")
  /\ UNCHANGED <<device, call>>
  /\ CASE top.pc = "start" ->
            Call(At("read"), F_read(0, \H15, Untouched(4), 4), <<>>)
       [] top.pc = "read" ->
            IF ret.val = 0 THEN Return(R("locked", 0, <<>>))
            ELSE LET config == ret.out
                 IN IF config[3] = \H00 /\ config[4] = \H00
                    THEN Return(R("locked", 1, <<>>))
                    ELSE Return(R("locked", 0, <<>>))

\* a writeConfiguration that steps over no block
NotWritable_none(i) == FALSE

\* the block writeConfiguration steps over: `if (i == 84) continue;`
NotWritable(i) == i = 84

F_writeConfiguration(data) ==
  [fn |-> "writeConfiguration", pc |-> "loop", data |-> data, i |-> 16]

writeConfiguration ==
  /\ Running("writeConfiguration")
  /\ UNCHANGED <<device, call>>
  /\ CASE top.pc = "loop" ->
            IF top.i < 128
            THEN IF NotWritable(top.i)
                 THEN Goto([top EXCEPT !.i = top.i + 4])
                 ELSE Call(At("wrote"),
                           F_write(0, top.i \div 4,
                                   SubSeq(top.data, top.i + 1, top.i + 4), 4),
                           <<>>)
            ELSE Return(R("writeConfiguration", 1, <<>>))
       [] top.pc = "wrote" ->
            IF ret.val = 0 THEN Return(R("writeConfiguration", 0, <<>>))
            ELSE Goto([top EXCEPT !.pc = "loop", !.i = top.i + 4])

F_readConfiguration(data) ==
  [fn |-> "readConfiguration", pc |-> "loop", data |-> data, i |-> 0]

readConfiguration ==
  /\ Running("readConfiguration")
  /\ UNCHANGED <<device, call>>
  /\ CASE top.pc = "loop" ->
            IF top.i < 128
            THEN Call(At("read"),
                      F_read(0, top.i \div 4,
                             SubSeq(top.data, top.i + 1, top.i + 32), 32),
                      <<>>)
            ELSE Return(R("readConfiguration", 1, top.data))
       [] top.pc = "read" ->
            IF ret.val = 0 THEN Return(R("readConfiguration", 0, top.data))
            ELSE Goto([top EXCEPT !.pc = "loop",
                                  !.data = Memcpy(top.data, top.i, ret.out, 32),
                                  !.i = top.i + 32])

F_lock == [fn |-> "lock", pc |-> "start"]

\* a lock() that goes on to zone 1 whatever lock(0) returned
lock_noShortCircuit ==
  /\ Running("lock")
  /\ UNCHANGED <<device, call>>
  /\ CASE top.pc = "start" -> Call(At("locked0"), F_lockZone(0), <<>>)
       [] top.pc = "locked0" -> Call(At("locked1"), F_lockZone(1), <<>>)
       [] top.pc = "locked1" ->
            IF ret.val = 0 THEN Return(R("lock", 0, <<>>))
            ELSE Return(R("lock", 1, <<>>))

\* lock(): the device-wide lock
lock ==
  /\ Running("lock")
  /\ UNCHANGED <<device, call>>
  /\ CASE top.pc = "start" -> Call(At("locked0"), F_lockZone(0), <<>>)
       [] top.pc = "locked0" ->
            IF ret.val = 0 THEN Return(R("lock", 0, <<>>))
            ELSE Call(At("locked1"), F_lockZone(1), <<>>)
       [] top.pc = "locked1" ->
            IF ret.val = 0 THEN Return(R("lock", 0, <<>>))
            ELSE Return(R("lock", 1, <<>>))

----------------------------------------------------------------------------
(* The calls made on the driver, and the specification.                    *)

Slots == 0..MaxSlot
Messages == {Ramp(32, 0), Fill(32, \H5A)}
Signatures == {Ramp(64, 64)}
PublicKeys == {Ramp(64, 128)}
Configurations == {Fill(128, \HFF), Ramp(128, 0)}
RandomLengths == {n \in {0, 1, 31, 32, 33, 64, MaxRandomLen} : n <= MaxRandomLen}
ZoneLengths == {0, 4, 5, 32}

Calls ==
  {F_begin, F_end, F_serialNumber, F_locked, F_lock, F_wakeup, F_sleep, F_idle,
   F_version, F_readConfiguration(Untouched(128))}
  \cup {F_random(Untouched(n + Guard), n) : n \in RandomLengths}
  \cup {F_generatePrivateKey(slot, Untouched(64)) : slot \in Slots}
  \cup {F_generatePublicKey(slot, Untouched(64)) : slot \in Slots}
  \cup {F_ecdsaVerify(m, sg, pk) : m \in Messages, sg \in Signatures, pk \in PublicKeys}
  \cup {F_ecSign(slot, m, Untouched(64)) : slot \in Slots, m \in Messages}
  \cup {F_writeConfiguration(d) : d \in Configurations}
  \cup {F_challenge(m) : m \in Messages}
  \cup {F_verify(sg, pk) : sg \in Signatures, pk \in PublicKeys}
  \cup {F_sign(slot, Untouched(64)) : slot \in Slots}
  \cup {F_lockZone(zone) : zone \in {0, 1}}
  \cup {F_read(zone, address, Untouched(length), length) :
          zone \in {0, 2}, address \in {0, \H15}, length \in ZoneLengths}
  \cup {F_write(zone, address, Ramp(length, 1), length) :
          zone \in {0, 2}, address \in {4, \H15}, length \in ZoneLengths}

Invoke ==
  /\ stack = <<>>
  /\ \E c \in Calls :
       /\ stack' = <<c>>
       /\ call' = c
       /\ log' = <<[k |-> "call", fn |-> c.fn]>>
  /\ ret' = NoRet
  /\ UNCHANGED device

Init ==
  /\ stack = <<>>
  /\ ret = NoRet
  /\ log = <<>>
  /\ device = "Asleep"
  /\ call = [fn |-> "none"]

Next ==
  \/ Invoke
  \/ begin
  \/ end
  \/ serialNumber
  \/ random
  \/ generatePrivateKey
  \/ generatePublicKey
  \/ ecdsaVerify
  \/ ecSign
  \/ locked
  \/ writeConfiguration
  \/ readConfiguration
  \/ lock
  \/ wakeup
  \/ sleep
  \/ idle
  \/ version
  \/ challenge
  \/ verify
  \/ sign
  \/ read
  \/ write
  \/ lockZone
  \/ sendCommand
  \/ receiveResponse

Spec == Init /\ [][Next]_vars

----------------------------------------------------------------------------
(* sendCommand on its own: the arguments are drawn when the call is made.  *)

\* the longest payload handed to sendCommand
MaxPayloadLen == 249

SendOpcodes == {\H00, \H30, \H45, \HFF}
SendParam1s == {\H00, \H80, \HFF}
SendParam2s == {\H0000, \H0004, \H0100, \H1234, \HFFFF}
SendLengths == {n \in {0, 1, 4, 32, 128, 248, MaxPayloadLen} : n <= MaxPayloadLen}

SendPayloads == UNION {{Ramp(n, 1), Fill(n, \HFF)} : n \in SendLengths}

SendCalls ==
  {F_sendCommand(opcode, param1, param2, data, Len(data)) :
     opcode \in SendOpcodes, param1 \in SendParam1s, param2 \in SendParam2s,
     data \in SendPayloads}

SendInit ==
  /\ \E c \in SendCalls :
       /\ stack = <<c>>
       /\ call = c
  /\ ret = NoRet
  /\ log = <<>>
  /\ device = "Awake"

SendNext == sendCommand

SendSpec == SendInit /\ [][SendNext]_vars

----------------------------------------------------------------------------
(* crc16 on its own: the arguments are drawn when the call is made.        *)

\* the longest of the byte sequences enumerated in full
MaxCrcLen == 2

CrcBytes == {\H00, \H01, \H04, \H11, \H80, \HA5, \HFF}

F_crc16(data, length) == [fn |-> "crc16", pc |-> "start", data |-> data, length |-> length]

\* every sequence of up to MaxCrcLen bytes, and some longer ones; with every
\* length that stays inside the buffer, and the null pointer
CrcCalls ==
  LET Buffers == UNION {[1..n -> CrcBytes] : n \in 0..MaxCrcLen}
                 \cup {Ramp(8, 1), Ramp(32, 0), Fill(32, \HFF)}
  IN {F_crc16(NULL, length) : length \in {0, 3}}
     \cup UNION {{F_crc16(data, length) : length \in 0..Len(data)} : data \in Buffers}

crc16Call ==
  /\ Running("crc16")
  /\ UNCHANGED <<device, call>>
  /\ Return(R("crc16", crc16(top.data, top.length), <<>>))

CrcInit ==
  /\ \E c \in CrcCalls :
       /\ stack = <<c>>
       /\ call = c
  /\ ret = NoRet
  /\ log = <<>>
  /\ device = "Asleep"

CrcNext == crc16Call

CrcSpec == CrcInit /\ [][CrcNext]_vars

----------------------------------------------------------------------------
(* Reading the log.                                                        *)

IsCmd(e) == e.k = "cmd"
IsBus(e) == e.k \in {"wake", "read", "cmd", "idle", "sleep"}

\* the command frames written to the bus so far, in order
Cmds == SelectSeq(log, IsCmd)

\* the fields of a command frame (byte 0 of the frame is element 1)
Opcode(e) == e.frame[3]
Param1(e) == e.frame[4]
Param2(e) == e.frame[5] + e.frame[6] * 256
Payload(e) == SubSeq(e.frame, 7, Len(e.frame) - 2)

\* positions in the log of the returns of fn
Rets(fn) == {i \in 1..Len(log) : log[i].k = "ret" /\ log[i].fn = fn}
\* positions in the log of the command frames
CmdAt == {i \in 1..Len(log) : log[i].k = "cmd"}

\* the public call fn has returned
Done(fn) == stack = <<>> /\ call.fn = fn

----------------------------------------------------------------------------
(* C1: read and write with a length other than 4 or 32.                    *)

\* C1: a read or write call whose length is not 4 or 32 returns failure and
\* performs no bus transaction at all (no wake transmission, no bus read,
\* no command write, no idle write).
C1_RejectedBeforeBus ==
  (call.fn \in {"read", "write"} /\ call.length \notin {4, 32}) =>
     /\ \A i \in 1..Len(log) : ~IsBus(log[i])
     /\ stack = <<>> => ret.val = 0

----------------------------------------------------------------------------
(* C2: writeConfiguration.                                                 *)

\* the word addresses writeConfiguration is to write, ascending: offsets
\* 16, 20, .., 124 without 84
ConfigWords == SelectSeq([j \in 1..28 |-> j + 3], LAMBDA a : a # 21)

\* C2: writeConfiguration never writes a block at offsets [0,16) or [84,88);
\* the writes it issues are 4-byte writes of zone 0, one per other block at
\* offsets 16, 20, .., 124 in ascending order, each carrying that block of
\* the input; all 27 when every write succeeds; and nothing more is sent
\* after the first write that fails.
C2_WriteConfigurationMask ==
  call.fn = "writeConfiguration" =>
    LET W == Cmds
    IN /\ Len(W) <= Len(ConfigWords)
       /\ \A j \in 1..Len(W) :
            LET c == W[j]
            IN /\ Opcode(c) = \H12
               /\ Param1(c) = 0
               /\ Param2(c) = ConfigWords[j]
               /\ Param2(c) * 4 \notin (0..15) \cup (84..87)
               /\ Payload(c) = SubSeq(call.data, 4 * ConfigWords[j] + 1,
                                      4 * ConfigWords[j] + 4)
       /\ \A i \in Rets("write") :
            log[i].v = 0 =>
              /\ Len(log) <= i + 1
              /\ Len(log) = i + 1 => log[i + 1] =
                   [k |-> "ret", fn |-> "writeConfiguration", v |-> 0, out |-> <<>>]
       /\ (stack = <<>> /\ \A i \in Rets("write") : log[i].v = 1) =>
            /\ ret.val = 1
            /\ Len(W) = Len(ConfigWords)
            /\ \A j \in 1..Len(W) : W[j].ok

\* writeConfiguration has written all 27 blocks
C2_Witness ==
  Done("writeConfiguration") /\ ret.val = 1 /\ Len(Cmds) = 27

\* a write in the middle failed and writeConfiguration stopped there
C2_WitnessStopped ==
  Done("writeConfiguration") /\ ret.val = 0 /\ Len(Cmds) = 18

----------------------------------------------------------------------------
(* One command exchange in the log.                                        *)

Max(S) == CHOOSE x \in S : \A y \in S : y <= x

\* where the call of fn that returned at position r was entered
Entry(fn, r) == Max({i \in 1..r : log[i].k = "call" /\ log[i].fn = fn})

IsRet(e, fn, v) == e.k = "ret" /\ e.fn = fn /\ e.v = v

\* between positions s and r: the wakeup succeeded, then a command frame was
\* written and acknowledged, then a response was accepted with payload out
Exchanged(s, r, out) ==
  \E w \in s..r : \E c \in w..r : \E a \in c..r :
    /\ IsRet(log[w], "wakeup", 1)
    /\ log[c].k = "cmd" /\ log[c].ok
    /\ IsRet(log[a], "receiveResponse", 1) /\ log[a].out = out

----------------------------------------------------------------------------
(* C3: lock().                                                             *)

\* C3: lock() sends the lock command of zone 0 before that of zone 1, sends
\* the zone-1 command only after lock(0) has succeeded (wakeup ok, frame
\* sent, response accepted, status 0), and returns 1 only if both zone
\* locks succeeded.
C3_LockOrder ==
  call.fn = "lock" =>
    LET W == Cmds
        L == Rets("lock(int)")
    IN /\ Len(W) <= 2
       /\ \A j \in 1..Len(W) :
            /\ Opcode(W[j]) = \H17
            /\ Param1(W[j]) = \H80 + (j - 1)
            /\ Param2(W[j]) = 0
            /\ Payload(W[j]) = <<>>
       /\ \A c \in CmdAt :
            Param1(log[c]) = \H81 =>
              \E r \in L : /\ r < c
                           /\ log[r].v = 1
                           /\ Exchanged(Entry("lock(int)", r), r, <<0>>)
       /\ (stack = <<>> /\ ret.val # 0) =>
            /\ ret.val = 1
            /\ Cardinality(L) = 2
            /\ \A r \in L : /\ log[r].v = 1
                            /\ Exchanged(Entry("lock(int)", r), r, <<0>>)
       /\ (stack = <<>> /\ Cardinality(L) = 2 /\ \A r \in L : log[r].v = 1) =>
            ret.val = 1

\* both zones were locked
C3_Witness == Done("lock") /\ ret.val = 1 /\ Len(Cmds) = 2

\* lock(0) failed after its command was sent, and lock() stopped there
C3_WitnessShortCircuit == Done("lock") /\ ret.val = 0 /\ Len(Cmds) = 1

----------------------------------------------------------------------------
(* C4: ecSign.                                                             *)

\* C4: ecSign sends random (0x1b), then challenge (0x16 with the 32-byte
\* message), then sign (0x41 with the slot); after a sub-operation has
\* failed nothing more goes over the bus and ecSign returns 0; on success
\* the signature is the 64 payload bytes of the response to sign.
C4_EcSignOrder ==
  call.fn = "ecSign" =>
    LET W == Cmds
        Subs == Rets("random") \cup Rets("challenge") \cup Rets("sign")
    IN /\ Len(W) <= 3
       /\ Len(W) >= 1 => /\ Opcode(W[1]) = \H1B
                         /\ Payload(W[1]) = <<>>
       /\ Len(W) >= 2 => /\ Opcode(W[2]) = \H16
                         /\ Payload(W[2]) = call.message
                         /\ Len(Payload(W[2])) = 32
       /\ Len(W) >= 3 => /\ Opcode(W[3]) = \H41
                         /\ Param2(W[3]) = call.slot
       /\ \A c \in CmdAt :
            /\ Opcode(log[c]) = \H16 =>
                 \E r \in Rets("random") : r < c /\ log[r].v = 1
            /\ Opcode(log[c]) = \H41 =>
                 \E r \in Rets("challenge") : r < c /\ log[r].v = 1
       /\ \A r \in Subs :
            log[r].v = 0 =>
              /\ \A i \in (r + 1)..Len(log) : ~IsBus(log[i])
              /\ stack = <<>> => ret.val = 0
       /\ (stack = <<>> /\ \A r \in Subs : log[r].v = 1) => ret.val = 1
       /\ (stack = <<>> /\ ret.val # 0) =>
            LET a == Max(Rets("receiveResponse"))
            IN /\ ret.val = 1
               /\ Len(W) = 3
               /\ log[a].v = 1
               /\ Len(log[a].out) = 64
               /\ ret.out = log[a].out

\* ecSign returned the signature the device answered with
C4_Witness == Done("ecSign") /\ ret.val = 1 /\ ret.out = Ramp(64, 1)

----------------------------------------------------------------------------
(* C5, C6: receiveResponse.                                                *)

\* C5: receiveResponse returns 0 for every response whose first byte is not
\* n + 3 and for every response whose last two bytes are not the checksum,
\* least-significant byte first, of its first n + 1 bytes; and once a read
\* has returned all n + 3 bytes the loop is over: no further read is made.
C5_ResponseRejected ==
  /\ ret.fn = "receiveResponse" =>
       LET b == ret.responseBuffer
           n == ret.length
           crc == crc16(b, n + 1)
       IN /\ b[1] # n + 3 => ret.val = 0
          /\ (b[n + 2] # crc % 256 \/ b[n + 3] # crc \div 256) => ret.val = 0
          /\ b \in {ResponseFrame(n + 2, SubSeq(b, 2, n + 1)),
                    BadCrcFrame(n + 3, SubSeq(b, 2, n + 1))} => ret.val = 0
  /\ (Running("receiveResponse") /\ top.got = top.responseSize) =>
       /\ top.pc = "check"
       /\ top.reads + top.retries = 21

\* a complete response with the right length byte and a wrong checksum was
\* rejected
C5_Witness ==
  /\ ret.fn = "receiveResponse"
  /\ ret.got = ret.length + 3
  /\ ret.responseBuffer[1] = ret.length + 3
  /\ ret.val = 0

\* C6: when every bus read of a receiveResponse came back short, it returns
\* 0 whatever the response buffer holds.
C6_ShortReadsFail ==
  (ret.fn = "receiveResponse" /\ ret.got # ret.length + 3) => ret.val = 0

----------------------------------------------------------------------------
(* C7: begin.                                                              *)

\* C7: begin returns 1 exactly when the wakeup succeeded, the version
\* command (0x30) was sent and its response was accepted with the payload
\* 00 00 50 00; in every other case it returns 0.
C7_BeginVersion ==
  Done("begin") =>
    LET answered ==
          /\ Exchanged(1, Len(log), <<\H00, \H00, \H50, \H00>>)
          /\ Len(Cmds) = 1
          /\ Opcode(Cmds[1]) = \H30
    IN ret.val = IF answered THEN 1 ELSE 0

\* the device answered 00 00 50 00 and begin returned 1
C7_Witness == Done("begin") /\ ret.val = 1

\* the device answered with another version and begin returned 0
C7_WitnessOtherVersion ==
  /\ Done("begin")
  /\ ret.val = 0
  /\ Exchanged(1, Len(log), <<\H00, \H50, \H00, \HAB>>)

----------------------------------------------------------------------------
(* C8: the status byte.                                                    *)

StatusFns == {"challenge", "verify", "write", "lock(int)"}

\* C8: challenge, verify, write and lock(zone) return 1 only after an
\* accepted response whose status byte is 0, and 0 after an accepted
\* response with any other status; ecdsaVerify returns 1 only if challenge
\* and verify both did.
C8_StatusZero ==
  /\ ret.fn \in StatusFns =>
       LET r == Len(log)
           s == Entry(ret.fn, r)
       IN /\ ret.val = IF Exchanged(s, r, <<0>>) THEN 1 ELSE 0
          /\ \A st \in {<<\H01>>, <<\H11>>} : Exchanged(s, r, st) => ret.val = 0
  /\ (Done("ecdsaVerify") /\ ret.val # 0) =>
       /\ ret.val = 1
       /\ \E c \in Rets("challenge") : \E v \in Rets("verify") :
            /\ c < v
            /\ log[c].v = 1 /\ Exchanged(Entry("challenge", c), c, <<0>>)
            /\ log[v].v = 1 /\ Exchanged(Entry("verify", v), v, <<0>>)

\* the device answered verify with status 1 and verify returned 0
C8_Witness ==
  /\ ret.fn = "verify"
  /\ ret.val = 0
  /\ Exchanged(Entry("verify", Len(log)), Len(log), <<\H01>>)

----------------------------------------------------------------------------
(* C9, C10: random.                                                        *)

IsRandomPayload(e) ==
  e.k = "ret" /\ e.fn = "receiveResponse" /\ e.v = 1 /\ Len(e.out) = 32

\* the accepted 32-byte responses of the call, in order
RandomPayloads == SelectSeq(log, IsRandomPayload)

\* byte i (from 1) of the accepted responses laid end to end
RandomByte(P, i) == P[((i - 1) \div 32) + 1].out[((i - 1) % 32) + 1]

\* C9 as stated: when random returns 0 no byte of data has been modified.
C9_NoPartialResult ==
  (Done("random") /\ ret.val = 0) => ret.out = call.data

\* C9, amended: when random returns 0, data holds the whole 32-byte
\* responses accepted before the failure, laid end to end from data[0], and
\* is unmodified from there on; for a length of 32 or less it is unmodified.
C9_OnlyWholeChunks ==
  (Done("random") /\ ret.val = 0) =>
    LET P == RandomPayloads
        k == Len(P)
    IN /\ 32 * k < call.length \/ k = 0
       /\ call.length <= 32 => ret.out = call.data
       /\ \A i \in 1..Len(ret.out) :
            ret.out[i] = IF i <= 32 * k THEN RandomByte(P, i) ELSE call.data[i]

\* random failed on its third command, with 64 bytes already in data
C9_Witness ==
  Done("random") /\ ret.val = 0 /\ Len(RandomPayloads) = 2

\* C10: random(data, n) wakes the device once, sends exactly ceil(n / 32)
\* random commands, fills data[0..n-1] with the responses laid end to end
\* (only the needed part of the last one), writes nothing behind data[n-1],
\* and ends with exactly one idle, when the device always answers.
C10_RandomFill ==
  call.fn = "random" =>
    LET n == call.length
        W == Cmds
        P == RandomPayloads
        data == IF stack = <<>> THEN ret.out ELSE stack[1].data
        failed == \E i \in 1..Len(log) : log[i].k = "ret" /\ log[i].v = 0
    IN /\ Len(W) <= (n + 31) \div 32
       /\ \A j \in 1..Len(W) :
            /\ Opcode(W[j]) = \H1B
            /\ Param1(W[j]) = 0 /\ Param2(W[j]) = 0 /\ Payload(W[j]) = <<>>
       /\ Cardinality({i \in 1..Len(log) : log[i].k = "wake"}) <= 1
       /\ \A i \in (n + 1)..Len(data) : data[i] = call.data[i]
       /\ (stack = <<>> /\ ~failed) => ret.val = 1
       /\ (stack = <<>> /\ ret.val # 0) =>
            /\ ret.val = 1
            /\ Len(W) = (n + 31) \div 32
            /\ Len(P) = Len(W)
            /\ \A i \in 1..n : data[i] = RandomByte(P, i)
            /\ Cardinality({i \in 1..Len(log) : log[i].k = "wake"}) = 1
            /\ Cardinality({i \in 1..Len(log) : log[i].k = "idle"}) = 1
            /\ Max({i \in 1..Len(log) : IsBus(log[i])})
                 = Max({i \in 1..Len(log) : log[i].k = "idle"})

\* random filled 33 bytes from two responses
C10_Witness ==
  /\ Done("random") /\ ret.val = 1 /\ call.length = 33
  /\ Len(Cmds) = 2
  /\ ret.out[33] = RandomPayloads[2].out[1]

----------------------------------------------------------------------------
(* C11: locked.                                                            *)

\* C11: locked() makes one 4-byte read of configuration word 0x15 and
\* returns 1 exactly when that read succeeded and bytes 2 and 3 of the
\* payload it fetched are both zero; when the read failed, or either byte is
\* not zero, it returns 0.
C11_Locked ==
  call.fn = "locked" =>
    LET W == Cmds
        Rd == Rets("read")
    IN /\ Len(W) <= 1
       /\ \A j \in 1..Len(W) :
            /\ Opcode(W[j]) = \H02
            /\ Param1(W[j]) = 0
            /\ Param2(W[j]) = \H15
            /\ Payload(W[j]) = <<>>
       /\ stack = <<>> =>
            /\ Cardinality(Rd) = 1
            /\ \A r \in Rd :
                 LET payload == log[r].out
                     succeeded == log[r].v # 0
                 IN /\ succeeded => /\ log[r].v = 4
                                    /\ Len(W) = 1
                                    /\ Exchanged(1, r, payload)
                    /\ ret.val = IF succeeded /\ payload[3] = 0 /\ payload[4] = 0
                                 THEN 1 ELSE 0

\* the device answered 01 23 00 00 and locked() returned 1
C11_Witness ==
  /\ Done("locked") /\ ret.val = 1
  /\ Exchanged(1, Len(log), <<\H01, \H23, \H00, \H00>>)

\* the read succeeded with byte 2 at 0x50 and byte 3 at zero: not locked
C11_WitnessByte2 ==
  /\ Done("locked") /\ ret.val = 0
  /\ \E r \in Rets("read") : log[r].v = 4 /\ log[r].out = <<\H00, \H00, \H50, \H00>>

----------------------------------------------------------------------------
(* C12: serialNumber.                                                      *)

LowerHex == <<"0", "1", "2", "3", "4", "5", "6", "7",
              "8", "9", "a", "b", "c", "d", "e", "f">>

\* the bytes, each as two lowercase hexadecimal digits
TwoDigitsEach(bytes) ==
  [i \in 1..(2 * Len(bytes)) |->
     LET b == bytes[(i + 1) \div 2]
     IN LowerHex[(IF i % 2 = 1 THEN b \div 16 ELSE b % 16) + 1]]

IsWordPayload(e) ==
  e.k = "ret" /\ e.fn = "receiveResponse" /\ e.v = 1 /\ Len(e.out) = 4

\* the accepted 4-byte responses of the call, in order
WordPayloads == SelectSeq(log, IsWordPayload)

\* C12: serialNumber() makes 4-byte reads of configuration words 0, 2 and 3
\* in that order; when one of them fails it returns the null result and
\* makes none of the remaining reads; when all three succeed it returns the
\* 16 characters that render the first 8 fetched bytes as two lowercase
\* hexadecimal digits each.
C12_SerialNumber ==
  call.fn = "serialNumber" =>
    LET W == Cmds
        Rd == Rets("read")
        P == WordPayloads
        failed == \E r \in Rd : log[r].v = 0
    IN /\ Len(W) <= 3
       /\ \A j \in 1..Len(W) :
            /\ Opcode(W[j]) = \H02
            /\ Param1(W[j]) = 0
            /\ Param2(W[j]) = <<0, 2, 3>>[j]
            /\ Payload(W[j]) = <<>>
       /\ \A r \in Rd :
            /\ log[r].v \in {0, 4}
            /\ log[r].v = 0 => \A i \in (r + 1)..Len(log) : ~IsBus(log[i])
       /\ (stack = <<>> /\ failed) => ret.val = "NULL"
       /\ (stack = <<>> /\ ~failed) =>
            /\ Cardinality(Rd) = 3
            /\ Len(W) = 3 /\ Len(P) = 3
            /\ Len(ret.val) = 16
            /\ ret.val = TwoDigitsEach(P[1].out \o P[2].out)

\* the device answered 00 50 00 AB, then 01 23 00 00, then anything
C12_Witness ==
  /\ Done("serialNumber")
  /\ Len(WordPayloads) = 3
  /\ ret.val = <<"0", "0", "5", "0", "0", "0", "a", "b",
                 "0", "1", "2", "3", "0", "0", "0", "0">>

\* the second read failed: null result, and word 3 was never read
C12_WitnessSecondFailed ==
  /\ Done("serialNumber")
  /\ Cardinality(Rets("read")) = 2
  /\ Len(Cmds) = 2
  /\ ret.val = "NULL"

----------------------------------------------------------------------------
(* C13: the read loop of receiveResponse.                                  *)

\* the driver is one synchronous thread and every requestFrom returns: a
\* receiveResponse in progress takes its next step
FairSpec == Spec /\ WF_vars(receiveResponse)

\* C13 as stated: in any call of receiveResponse the bus read is attempted
\* at most 20 times in total.
C13_AtMost20Reads ==
  Running("receiveResponse") => top.reads <= 20

\* the loop of receiveResponse: every read so far came back short while it
\* polls, and it is left after a full read or after the 21st short one
ReadLoop ==
  Running("receiveResponse") =>
    /\ top.reads <= 21
    /\ top.reads + top.retries = IF top.got = top.responseSize THEN 21 ELSE 20
    /\ top.pc = "poll" => /\ top.reads <= 20
                          /\ top.reads = 0 \/ top.got # top.responseSize
    /\ top.pc = "check" => /\ top.reads >= 1
                           /\ top.got = top.responseSize \/ top.reads = 21

\* C13, amended: in any call of receiveResponse the bus read is attempted at
\* most 21 times in total (the first attempt and 20 retries): reads stop at
\* the first attempt that returns the full requested size, after 21
\* attempts that all came back short no further attempt is made, and the
\* call always returns.
C13_AtMost21Reads ==
  /\ []ReadLoop
  /\ Running("receiveResponse") ~> ~Running("receiveResponse")

\* the 21st read of a call came back short, and the loop was left
C13_Witness ==
  /\ Running("receiveResponse")
  /\ top.pc = "check"
  /\ top.reads = 21
  /\ top.got # top.responseSize

----------------------------------------------------------------------------
(* C14: commands go to a device that is awake.                             *)

\* the last position of S before position c, or 0
LastBefore(S, c) ==
  LET B == {i \in S : i < c}
  IN IF B = {} THEN 0 ELSE Max(B)

\* C14: with the device Awake from a successful wakeup() until the next
\* idle() or sleep(): in every sequence of calls a command frame is sent
\* only while the device is Awake, every command frame comes after a
\* successful wakeup with no idle in between, and when wakeup fails the
\* operation returns failure without sending a command frame.
C14_CommandOnlyAwake ==
  LET Wk == Rets("wakeup")
  IN /\ Running("sendCommand") => device = "Awake"
     /\ \A c \in CmdAt :
          LET w == LastBefore(Wk, c)
          IN /\ w > 0
             /\ log[w].v = 1
             /\ \A i \in w..c : log[i].k \notin {"idle", "sleep"}
     /\ \A w \in Wk :
          log[w].v = 0 =>
            /\ \A i \in (w + 1)..Len(log) : ~IsBus(log[i])
            /\ w < Len(log) => log[w + 1].k = "ret" /\ log[w + 1].v = 0
            /\ stack = <<>> =>
                 IF call.fn = "serialNumber" THEN ret.val = "NULL" ELSE ret.val = 0

\* random() is about to send its second command after one wakeup and no idle
C14_Witness ==
  /\ Running("sendCommand")
  /\ call.fn = "random"
  /\ Len(Cmds) = 1
  /\ device = "Awake"
  /\ Cardinality(Rets("wakeup")) = 1

\* the wakeup of a sign() failed: sign returned 0 and sent no command
C14_WitnessWakeupFailed ==
  /\ Done("sign") /\ ret.val = 0
  /\ \E w \in Rets("wakeup") : log[w].v = 0
  /\ Len(Cmds) = 0

----------------------------------------------------------------------------
(* C15: the processing delay.                                              *)

\* the delay each opcode is to be given, in milliseconds
ProcessingDelay(opcode) ==
  CASE opcode = \H30 -> 1
    [] opcode = \H02 -> 1
    [] opcode = \H16 -> 7
    [] opcode = \H1B -> 23
    [] opcode = \H12 -> 26
    [] opcode = \H17 -> 32
    [] opcode = \H41 -> 50
    [] opcode = \H45 -> 58
    [] opcode = \H40 -> 115

\* positions in the log of the first bus read of each response
ReadAt == {i \in 1..Len(log) : log[i].k = "read"}

\* C15: the first bus read of a command's response comes only after the
\* command frame was sent successfully and the opcode's processing delay
\* was then waited (version 1, read 1, challenge 7, random 23, write 26,
\* lock 32, sign 50, verify 58, key generation and derivation 115 ms); and
\* after a command frame that could not be sent no response is read.
C15_DelayBeforeRead ==
  /\ \A c \in CmdAt :
       /\ ~log[c].ok => \A i \in (c + 1)..Len(log) : log[i].k # "read"
       /\ log[c].ok =>
            /\ Len(log) >= c + 1 => IsRet(log[c + 1], "sendCommand", 1)
            /\ Len(log) >= c + 2 => log[c + 2] = Delay(ProcessingDelay(Opcode(log[c])))
            /\ Len(log) >= c + 3 => log[c + 3] = [k |-> "call", fn |-> "receiveResponse"]
            /\ Len(log) >= c + 4 => log[c + 4].k = "read"
  /\ \A r \in ReadAt :
       \/ /\ r > 3
          /\ log[r - 3].k = "wake"
       \/ /\ r > 4
          /\ log[r - 4].k = "cmd"
          /\ log[r - 4].ok
          /\ log[r - 2] = Delay(ProcessingDelay(Opcode(log[r - 4])))
          /\ log[r - 2].t \in {1, 7, 23, 26, 32, 50, 58, 115}

\* the response to a lock command is read after 32 ms
C15_Witness ==
  \E r \in ReadAt :
    /\ r > 4
    /\ log[r - 4].k = "cmd"
    /\ Opcode(log[r - 4]) = \H17
    /\ log[r - 2] = Delay(32)

\* the frame of a key generation could not be sent: no read, and 0 returned
C15_WitnessNotSent ==
  /\ Done("generatePrivateKey") /\ ret.val = 0
  /\ Len(Cmds) = 1 /\ ~Cmds[1].ok
  /\ Cardinality(ReadAt) = 1

----------------------------------------------------------------------------
(* C16: idle after a completed command.                                    *)

CommandFns == {"version", "random", "generatePrivateKey", "generatePublicKey",
               "challenge", "verify", "sign", "read", "write", "lock(int)"}

\* C16: a command-level operation that returns success has issued idle() as
\* its last bus transaction, once, after the response was received and a
\* 1 ms delay, so that the device is Asleep when it returns success.
C16_IdleLast ==
  (ret.fn \in CommandFns /\ ret.val # 0) =>
    LET r == Len(log)
        s == Entry(ret.fn, r)
        sent == \E c \in CmdAt : s < c /\ c < r
    IN /\ r - 4 > s
       /\ log[r] = [k |-> "ret", fn |-> ret.fn, v |-> ret.val, out |-> ret.out]
       /\ log[r - 1] = [k |-> "idle"]
       /\ log[r - 2] = [k |-> "call", fn |-> "idle"]
       /\ log[r - 3] = Delay(1)
       /\ IF sent THEN IsRet(log[r - 4], "receiveResponse", 1)
                  ELSE ret.fn = "random" /\ IsRet(log[r - 4], "wakeup", 1)
       /\ Cardinality({i \in s..r : log[i].k \in {"idle", "sleep"}}) = 1
       /\ device = "Asleep"

\* a 32-byte read has returned 32 with the idle behind it
C16_Witness ==
  /\ ret.fn = "read" /\ ret.val = 32
  /\ log[Len(log) - 1] = [k |-> "idle"]
  /\ log[Len(log) - 3] = Delay(1)
  /\ device = "Asleep"

----------------------------------------------------------------------------
(* C17: ecdsaVerify.                                                       *)

\* C17: ecdsaVerify sends the challenge command (0x16, param1 0x03, the
\* 32-byte message) before the verify command, sends the verify command
\* (0x45, param1 0x02, param2 0x0004) with a 128-byte payload whose bytes
\* 0..63 are the signature and bytes 64..127 the public key, and sends no
\* verify command when the challenge failed.
C17_EcdsaVerifyFrames ==
  call.fn = "ecdsaVerify" =>
    LET W == Cmds
    IN /\ Len(W) <= 2
       /\ Len(W) >= 1 =>
            /\ Opcode(W[1]) = \H16
            /\ Param1(W[1]) = \H03
            /\ Len(Payload(W[1])) = 32
            /\ Payload(W[1]) = call.message
       /\ Len(W) >= 2 =>
            /\ Opcode(W[2]) = \H45
            /\ Param1(W[2]) = \H02
            /\ Param2(W[2]) = \H0004
            /\ Len(Payload(W[2])) = 128
            /\ SubSeq(Payload(W[2]), 1, 64) = call.signature
            /\ SubSeq(Payload(W[2]), 65, 128) = call.pubkey
       /\ \A c \in CmdAt :
            Opcode(log[c]) = \H45 =>
              \E r \in Rets("challenge") : r < c /\ log[r].v = 1
       /\ \A r \in Rets("challenge") :
            log[r].v = 0 =>
              /\ \A i \in (r + 1)..Len(log) : ~IsBus(log[i])
              /\ stack = <<>> => ret.val = 0

\* the verify frame went out with the signature and then the public key
C17_Witness ==
  /\ call.fn = "ecdsaVerify"
  /\ Len(Cmds) = 2
  /\ Cmds[2].ok
  /\ Payload(Cmds[2]) = Ramp(64, 64) \o Ramp(64, 128)

\* the device answered the challenge with status 1: no verify frame
C17_WitnessChallengeFailed ==
  /\ Done("ecdsaVerify") /\ ret.val = 0
  /\ Len(Cmds) = 1 /\ Cmds[1].ok
  /\ Exchanged(1, Len(log), <<\H01>>)

----------------------------------------------------------------------------
(* C18: the command frame.                                                 *)

\* the frame a finished sendCommand call has written, with its arguments:
\* bytes 0, 2..n+7 as C18 lays them out, and the result of the call
FrameWritten(f, a) ==
  LET n == a.dataLength
  IN /\ Len(f) = n + 8
     /\ f[1] = \H03
     /\ f[3] = a.opcode
     /\ f[4] = a.param1
     /\ f[5] = a.param2 % 256
     /\ f[6] = a.param2 \div 256
     /\ \A i \in 1..n : f[6 + i] = a.data[i]
     /\ f[n + 7] + 256 * f[n + 8] = crc16(SubSeq(f, 2, n + 6), n + 5)
     /\ f[n + 7] \in 0..255 /\ f[n + 8] \in 0..255
     /\ log[1].ok => ret.val = 1
     /\ ~log[1].ok => ret.val = 0

\* C18 as stated: for every opcode, param1, param2 and payload of length n
\* the frame has n + 8 bytes, byte 0 is 0x03, byte 1 is n + 7, bytes 2 and 3
\* the opcode and param1, bytes 4..5 param2 low byte first, then the
\* payload, then the checksum of bytes 1..n+5 low byte first; and
\* sendCommand fails if the bus write reports an error.
C18_FrameLayout ==
  (call.fn = "sendCommand" /\ stack = <<>>) =>
    /\ FrameWritten(log[1].frame, call)
    /\ log[1].frame[2] = call.dataLength + 7

\* C18, amended: the same, with byte 1 equal to n + 7 for payloads of up to
\* 248 bytes; byte 1 is one byte and holds (n + 7) modulo 256 for longer
\* ones.
C18_FrameLayoutInByte ==
  (call.fn = "sendCommand" /\ stack = <<>>) =>
    /\ FrameWritten(log[1].frame, call)
    /\ log[1].frame[2] = (call.dataLength + 7) % 256
    /\ call.dataLength <= 248 => log[1].frame[2] = call.dataLength + 7

\* the frame of a verify command went out whole: 136 bytes, byte 1 is 135
C18_Witness ==
  /\ call.fn = "sendCommand" /\ stack = <<>>
  /\ call.opcode = \H45 /\ call.param2 = \H0004 /\ call.dataLength = 128
  /\ ret.val = 1
  /\ Len(log[1].frame) = 136
  /\ log[1].frame[2] = 135
  /\ log[1].frame[5] = 4 /\ log[1].frame[6] = 0

\* the longest payload whose frame size still fits byte 1
C18_WitnessLongest ==
  /\ call.fn = "sendCommand" /\ stack = <<>>
  /\ call.dataLength = 248
  /\ log[1].frame[2] = 255

----------------------------------------------------------------------------
(* C19: crc16 against the bit-serial reference.                            *)

\* the reference accumulator: the set of its bits that are 1, out of 0..15
RefZero == {}

\* the polynomial 0x8005 = 1000 0000 0000 0101: bits 15, 2 and 0
RefPoly == {0, 2, 15}

\* one data bit: shift left within 16 bits, then exclusive-or with the
\* polynomial exactly when the data bit differed from the top bit
RefBit(acc, dataBit) ==
  LET differ == dataBit # (15 \in acc)
      shifted == {j + 1 : j \in acc \ {15}}
  IN IF differ THEN (shifted \ RefPoly) \cup (RefPoly \ shifted) ELSE shifted

\* the bits i..7 of byte b, least significant first
RECURSIVE RefByte(_, _, _)
RefByte(acc, b, i) ==
  IF i > 7 THEN acc
  ELSE RefByte(RefBit(acc, (b \div (2 ^ i)) % 2 = 1), b, i + 1)

\* the bytes k..Len(bytes), first byte first (each byte's accumulator is
\* worked out before the next byte is taken)
RECURSIVE RefBytes(_, _, _)
RefBytes(acc, bytes, k) ==
  IF k > Len(bytes) THEN acc
  ELSE LET next == RefByte(acc, bytes[k], 0)
       IN IF next \subseteq 0..15 THEN RefBytes(next, bytes, k + 1) ELSE {}

\* the accumulator as a number
RECURSIVE RefValue(_, _)
RefValue(acc, j) ==
  IF j > 15 THEN 0
  ELSE (IF j \in acc THEN 2 ^ j ELSE 0) + RefValue(acc, j + 1)

\* C19: crc16 returns 0 for empty or null input, and for every byte
\* sequence the value of the reference algorithm: accumulator 0 at the
\* start; for each byte, for each bit from least to most significant, the
\* accumulator is shifted left by one within 16 bits and exclusive-ored with
\* 0x8005 exactly when the data bit differed from the accumulator's top bit
\* before the shift.  The result is determined by the input.
C19_Crc16Reference ==
  (call.fn = "crc16" /\ stack = <<>>) =>
    /\ ret.val \in 0..65535
    /\ (DOMAIN call.data = DOMAIN NULL \/ call.length = 0) => ret.val = 0
    /\ DOMAIN call.data # DOMAIN NULL =>
         ret.val = RefValue(RefBytes(RefZero, SubSeq(call.data, 1, call.length), 1), 0)

\* the checksum of 04 11, the device's answer to a wake, is 0x4333
C19_Witness ==
  /\ call.fn = "crc16" /\ stack = <<>>
  /\ call.data = <<\H04, \H11>> /\ call.length = 2
  /\ ret.val = \H4333

\* the null pointer with a length of 3 gives 0
C19_WitnessNull ==
  /\ call.fn = "crc16" /\ stack = <<>>
  /\ DOMAIN call.data = DOMAIN NULL /\ call.length = 3
  /\ ret.val = 0

----------------------------------------------------------------------------
(* C20: the state a failed command leaves the device in.                   *)

\* the last position of S up to position r, or 0
LastIn(S, r) == LastBefore(S, r + 1)

\* C20: a command that fails because its frame could not be sent, or
\* because the response was missing or invalid, returns without having
\* issued idle() and leaves the device Awake; a command that fails only
\* because the device reported a nonzero status (challenge, verify, write,
\* lock) has issued idle() before it returns failure.
C20_FailurePaths ==
  ret.fn \in CommandFns =>
    LET r == Len(log)
        s == Entry(ret.fn, r)
        idled == \E i \in s..r : log[i].k \in {"idle", "sleep"}
        c == LastIn(CmdAt, r)
        sent == c > s
        a == LastIn(Rets("receiveResponse"), r)
    IN /\ IsRet(log[r - 1], "sendCommand", 0) =>
            /\ ret.val = 0
            /\ ~idled
            /\ device = "Awake"
       /\ (sent /\ IsRet(log[r - 1], "receiveResponse", 0)) =>
            /\ ret.val = 0
            /\ ~idled
            /\ device = "Awake"
       /\ (ret.fn \in StatusFns /\ sent /\ a > c
           /\ log[a].v = 1 /\ log[a].out # <<0>>) =>
            /\ ret.val = 0
            /\ idled
            /\ log[r - 1] = [k |-> "idle"]
            /\ a < r - 1
            /\ device = "Asleep"

\* a key generation whose response was rejected returned 0 with no idle
C20_Witness ==
  /\ ret.fn = "generatePrivateKey" /\ ret.val = 0
  /\ IsRet(log[Len(log) - 1], "receiveResponse", 0)
  /\ Len(Cmds) = 1 /\ Cmds[1].ok
  /\ \A i \in 1..Len(log) : log[i].k # "idle"
  /\ device = "Awake"

\* a write that the device answered with status 1 returned 0 after idle
C20_WitnessStatus ==
  /\ ret.fn = "write" /\ ret.val = 0
  /\ log[Len(log) - 1] = [k |-> "idle"]
  /\ Exchanged(Entry("write", Len(log)), Len(log), <<\H01>>)
  /\ device = "Asleep"

\* a lock whose frame could not be sent returned 0 with the device Awake
C20_WitnessNotSent ==
  /\ ret.fn = "lock(int)" /\ ret.val = 0
  /\ IsRet(log[Len(log) - 1], "sendCommand", 0)
  /\ device = "Awake"

====
